---- MODULE Spec2Model ----
(***************************************************************************)
(* A state-machine model of mischief_unpack (src/artparser.py), the        *)
(* range-coded LZ77 decompressor of the .art parser.                       *)
(*                                                                         *)
(* One action models one decode site of the function (the code between two *)
(* calls of _pop_byte), named after the value the site decodes.  The       *)
(* variables are the fields of UnpackerState and the locals of             *)
(* mischief_unpack that are live between two sites, under their source     *)
(* names.  An assignment to a local is modelled where a later site reads   *)
(* the value; sp_4c, which is written and read inside one step, is a LET.  *)
(*                                                                         *)
(* Numbers that can reach 2^32 (EAX, ESI, ebp and the four distances       *)
(* sp_20, sp_28, sp_2c, sp_40) are kept as two 16-bit limbs [hi, lo] of    *)
(* value hi * 65536 + lo, so that every width the code relies on is kept.  *)
(*                                                                         *)
(* byte_input holds the bytes of the input that have been fixed so far:    *)
(* the nine-byte prefix and every payload byte already read.  A payload    *)
(* byte below packed_length that has not been read yet has influenced      *)
(* nothing, and is chosen at the moment _pop_byte reads it, from the       *)
(* alphabet of the payload bytes fixed before it.                          *)
(*                                                                         *)
(* garbage lists the cells of the probability array that have been         *)
(* written; every other cell still holds its initial value 0x400.          *)
(***************************************************************************)
EXTENDS Integers, Sequences, FiniteSets, TLC

\* ------------------------------------------------------------ bounds
\* largest announced uncompressed length (bytes 0..3 of the input)
MaxUnpacked == 5
\* largest length of the input, prefix included
MaxPacked == 13
\* the payload of an input is a word over one of these sets of byte values
Alphabets == { {96, 128, 255}, {0, 32, 192} }

\* ------------------------------------------------------------ limbs
B16 == 256 * 256

W(h, l) == [hi |-> h, lo |-> l]

\* the limbs of hi * 65536 + l for any l >= 0
Norm(h, l) == W(h + l \div B16, l % B16)

FromInt(n) == Norm(0, n)

\* only for values below 2^31
ToInt(w) == w.hi * B16 + w.lo

WLt(a, b) == a.hi < b.hi \/ (a.hi = b.hi /\ a.lo < b.lo)

WLe(a, b) == ~WLt(b, a)

\* a - b for a >= b
WSub(a, b) ==
    IF a.lo >= b.lo THEN W(a.hi - b.hi, a.lo - b.lo)
    ELSE W(a.hi - b.hi - 1, a.lo + B16 - b.lo)

WAdd(a, b) == Norm(a.hi + b.hi, a.lo + b.lo)

\* w & 0xFFFFFFFF
Mask32(w) == W(w.hi % B16, w.lo)

\* ((w << 8) & MAXINT) | b, for a byte b
Shl8Or(w, b) == W((w.hi % 256) * 256 + w.lo \div 256, (w.lo % 256) * 256 + b)

\* w >> 11 as a number (w below 2^42)
Shr11(w) == w.hi * 32 + w.lo \div 2048

\* w >> 1
Shr1(w) == W(w.hi \div 2, (w.hi % 2) * 32768 + w.lo \div 2)

\* limb-wise bit operations on numbers >= 0
RECURSIVE And(_, _)
And(a, b) ==
    IF a = 0 \/ b = 0 THEN 0
    ELSE (a % 2) * (b % 2) + 2 * And(a \div 2, b \div 2)

Or(a, b) == a + b - And(a, b)

\* a & b where a & ~b is meant
AndKept(a, b) == And(a, b)

\* a & ~b
AndNot(a, b) == a - And(a, b)

WOr(a, b) == W(Or(a.hi, b.hi), Or(a.lo, b.lo))

\* a * p for a below 2^26 and p below 2^16, without overflow
MulP(a, p) ==
    LET ah == a \div B16
        al == a % B16
        ph == p \div 256
        pl == p % 256
        q  == al * ph
    IN  Norm(ah * p + q \div 256, (q % 256) * 256 + al * pl)

MAXINT == W(65535, 65535)


\* ------------------------------------------------------------ tables
\* the table read one entry too far
TABLE_Shifted ==
    << 0, 0, 0, 1, 2, 3, 4, 5,
       6, 4, 5, 7, 7, 7, 7, 7,
       7, 7, 10, 10, 10, 10, 10, 0,
       0, 0, 0, 0, 0, 0, 0, 0 >>

\* the first 32 bytes of TABLE_50B8D8: entry s is the state after a literal in state s
TABLE_50B8D8 ==
    << 0, 0, 0, 0, 1, 2, 3, 4,
       5, 6, 4, 5, 7, 7, 7, 7,
       7, 7, 7, 10, 10, 10, 10, 10,
       0, 0, 0, 0, 0, 0, 0, 0 >>

\* UnpackerState.sp_44 is never assigned after __init__
sp_44 == 0

\* the local sp_50 is never assigned after its initialisation
sp_50 == 0

\* garbage_length = 0x3E70; the array has garbage_length // 2 cells
garbage_length == 15984

\* ------------------------------------------------------------ state
VARIABLES
    byte_input,     \* the input bytes fixed so far (Python index i is byte_input[i + 1])
    packed_length,  \* len(byte_input) on entry
    EAX, ESI,       \* range decoder: scale and value
    in_pos,         \* input cursor
    sp_14,          \* number of bytes produced
    sp_18,          \* state index
    out_pos,        \* output cursor
    sp_20, sp_28, sp_2c, sp_40,   \* the four distances, most recent first
    sp_24, sp_30, sp_38, sp_64,
    decoded,        \* the output buffer (Python index i is decoded[i + 1])
    garbage,        \* the written cells of the probability array
    ecx, ebx, ebp, edi,           \* locals that are live between two decode sites
    tmpvar,         \* tmpvar1, tmpvar2 or tmpvar3, by the loop that is running
    tmpvar4,        \* the index of the unwound loop at 0046886D
    pc,             \* the decode site control is at
    result,         \* what mischief_unpack returned or raised, "" while it runs
    left_pad,       \* pad bytes an earlier call has left at the end of the input
    first           \* what an earlier call on the input returned or raised

vars == << byte_input, packed_length, EAX, ESI, in_pos, sp_14, sp_18, out_pos,
           sp_20, sp_28, sp_2c, sp_40, sp_24, sp_30, sp_38, sp_64, decoded,
           garbage, ecx, ebx, ebp, edi, tmpvar, tmpvar4, pc, result,
           left_pad, first >>

\* struct.pack('<I', n) for n below 2^31
PackLE(n) ==
    << n % 256, (n \div 256) % 256, (n \div B16) % 256, n \div (256 * B16) >>

\* struct.unpack('I', b[0:4]) as a number
UnpackLE(b) == b[1] + 256 * b[2] + B16 * b[3] + 256 * B16 * b[4]

\* struct.unpack('>I', b[5:9]) as limbs
UnpackBE(b) == W(b[6] * 256 + b[7], b[8] * 256 + b[9])

\* garbage[i]
Cell(i) == IF i \in DOMAIN garbage THEN garbage[i] ELSE 1024

\* v & 0xFFFF, what a cell keeps of v
Stored(v) == v % B16

\* garbage[i] = v & 0xFFFF
Put(i, v) ==
    [j \in DOMAIN garbage \cup {i} |-> IF j = i THEN Stored(v) ELSE garbage[j]]

\* Python's decoded[i]: a negative index counts from the end
PyOk(buf, i) == i < Len(buf) /\ i >= -Len(buf)

PyGet(buf, i) == IF i >= 0 THEN buf[i + 1] ELSE buf[Len(buf) + i + 1]

\* a distance too large for ToInt
Far(d) == d.hi >= 16384

\* (sp_38 if pos < d else 0) - d + pos: where the byte d back from pos is read.
\* For a distance of 2^30 or more the index is below sp_38 + pos - 2^30; it is
\* reported as that bound, which is below -len(decoded) like the index itself.
BackIndex(d, pos) ==
    IF Far(d) THEN sp_38 + pos - 16384 * B16
    ELSE (IF pos < ToInt(d) THEN sp_38 ELSE 0) - ToInt(d) + pos

Zeros(n) == [i \in 1..n |-> 0]

\* no earlier call on the input object
NoCall == [result |-> "", decoded |-> << >>]

Init ==
    /\ byte_input \in { PackLE(n) \o <<0>> \o e :
                          n \in 0..MaxUnpacked,
                          e \in UNION { [1..4 -> A] : A \in Alphabets } }
    /\ packed_length \in 9..MaxPacked
    /\ EAX = W(65535, 65535)
    /\ ESI = UnpackBE(byte_input)
    /\ in_pos = 9
    /\ sp_14 = 0
    /\ sp_18 = 0
    /\ out_pos = 0
    /\ sp_20 = W(0, 1)
    /\ sp_28 = W(0, 1)
    /\ sp_2c = W(0, 1)
    /\ sp_40 = W(0, 1)
    /\ sp_24 = 0
    /\ sp_30 = 0
    /\ sp_38 = UnpackLE(byte_input)
    /\ sp_64 = UnpackLE(byte_input)
    /\ decoded = Zeros(UnpackLE(byte_input))
    /\ garbage = << >>
    /\ ecx = 0
    /\ ebx = 0
    /\ ebp = W(0, 0)
    /\ edi = 0
    /\ tmpvar = 0
    /\ tmpvar4 = 0
    /\ pc = "loop"
    /\ result = ""
    /\ left_pad = 0
    /\ first = NoCall

\* ------------------------------------------------------------ range decoder
\* _pop_byte's condition with the threshold 0x00010000
NeedPopLate == WLt(EAX, W(1, 0))

\* _pop_byte's condition
NeedPop == WLt(EAX, W(256, 0))

\* the values byte_input[in_pos] can have when _pop_byte reads it: a byte fixed
\* earlier, a fresh payload byte, a byte of the zero pad, or none (IndexError)
PopChoices ==
    IF ~NeedPop THEN {0}
    ELSE IF in_pos < Len(byte_input) THEN {byte_input[in_pos + 1]}
    ELSE IF in_pos < packed_length - left_pad
         THEN UNION { A \in Alphabets : \A k \in 6..Len(byte_input) : byte_input[k] \in A }
    ELSE IF in_pos < packed_length + 4 THEN {0}
    ELSE {}

\* _pop_byte, reading the value b
pop_byte(b) ==
    IF NeedPop
    THEN [EAX |-> Shl8Or(EAX, 0), ESI |-> Shl8Or(ESI, b), in_pos |-> in_pos + 1,
          input |-> IF in_pos >= Len(byte_input) /\ in_pos < packed_length
                    THEN Append(byte_input, b) ELSE byte_input]
    ELSE [EAX |-> EAX, ESI |-> ESI, in_pos |-> in_pos, input |-> byte_input]

\* p adapted upward with the shift applied to p alone
AdaptUpTruncated(p) == p - (p \div 32) + 64

\* p adapted upward: ((0x800 - p) >> 5) + p
AdaptUp(p) == ((2048 - p) \div 32) + p

\* p adapted downward with the rounding of the other direction
AdaptDownRounded(p) == p - ((p + 31) \div 32)

\* p adapted downward: p - (p >> 5)
AdaptDown(p) == p - (p \div 32)

\* One adaptive decode step on cell i after _pop_byte read b: the bit, the
\* new range decoder and the new value of the cell.  masked tells the sites
\* that compute ((EAX >> 0x0b) * p) & MAXINT from those that do not mask.
DecodeBit(b, i, masked) ==
    LET s == pop_byte(b)
        p == Cell(i)
        prod == MulP(Shr11(s.EAX), p)
        bound == IF masked THEN Mask32(prod) ELSE prod
    IN  IF WLt(s.ESI, bound)
        THEN [bit |-> 0, EAX |-> bound, ESI |-> s.ESI,
              in_pos |-> s.in_pos, input |-> s.input, p |-> AdaptUp(p)]
        ELSE [bit |-> 1, EAX |-> WSub(s.EAX, bound), ESI |-> WSub(s.ESI, bound),
              in_pos |-> s.in_pos, input |-> s.input, p |-> AdaptDown(p)]

\* the assignments every adaptive decode step makes
Coder(r, i) ==
    /\ EAX' = r.EAX
    /\ ESI' = r.ESI
    /\ in_pos' = r.in_pos
    /\ byte_input' = r.input
    /\ garbage' = Put(i, r.p)

mru == << sp_20, sp_28, sp_2c, sp_40 >>
output == << decoded, out_pos, sp_14 >>
fixed == << packed_length, sp_38, sp_64, left_pad, first >>

\* leaving mischief_unpack with the value or exception r
Leave(r) == pc' = "done" /\ result' = r


\* the loop condition without the test of the output length
LoopConditionInputOnly == in_pos < packed_length

\* ------------------------------------------------------------ main loop
\* 00467FE1: the condition of the main loop
LoopCondition == in_pos < packed_length /\ out_pos < sp_38

\* 00467FE1: the loop condition fails and the function returns decoded
ReturnDecoded ==
    /\ pc = "loop"
    /\ ~LoopCondition
    /\ Leave("decoded")
    /\ UNCHANGED << byte_input, EAX, ESI, in_pos, garbage, sp_18, sp_24, sp_30,
                    ecx, ebx, ebp, edi, tmpvar, tmpvar4, mru, output, fixed >>

\* _pop_byte reads byte_input[in_pos] past the four pad bytes: IndexError
PopIndexError ==
    /\ pc \notin {"done", "push", "copy"}
    /\ pc = "loop" => LoopCondition
    /\ NeedPop
    /\ PopChoices = {}
    /\ Leave("IndexError")
    /\ UNCHANGED << byte_input, EAX, ESI, in_pos, garbage, sp_18, sp_24, sp_30,
                    ecx, ebx, ebp, edi, tmpvar, tmpvar4, mru, output, fixed >>

\* the literal sub-coder's base: 0xe6c, plus 0x600 times the top three bits
\* of the previous byte once a byte has been produced (0046804A)
LiteralBase ==
    IF sp_44 # 0 \/ sp_14 # 0
    THEN LET ecx2 == IF out_pos # 0 THEN out_pos ELSE sp_38
         IN  3692 + ((PyGet(decoded, ecx2 - 1) \div 32)
                     + And(sp_14, sp_50) * 8) * 1536
    ELSE 3692

\* 00467FE1-0046808F, 004680FB, 004681E1: the is-reference bit of state sp_18
DecodeIsRef ==
    /\ pc = "loop"
    /\ LoopCondition
    /\ \E b \in PopChoices :
        LET i == (sp_14 % 4) + sp_18 * 16
            r == DecodeBit(b, i, TRUE)
            ref == BackIndex(sp_20, out_pos)
        IN  /\ Coder(r, i)
            /\ IF r.bit = 0
               THEN /\ ebp' = FromInt(LiteralBase)
                    /\ sp_30' = IF sp_44 # 0 \/ sp_14 # 0 THEN LiteralBase
                                ELSE sp_14 % 4
                    /\ ecx' = 1
                    /\ IF sp_18 < 7
                       THEN /\ pc' = "literal"
                            /\ UNCHANGED << ebx, tmpvar, tmpvar4, result >>
                       ELSE IF PyOk(decoded, ref)
                       THEN /\ pc' = "literal_ref"
                            /\ ebx' = 256
                            /\ tmpvar' = PyGet(decoded, ref)
                            /\ UNCHANGED << tmpvar4, result >>
                       ELSE /\ Leave("IndexError")
                            /\ UNCHANGED << ebx, tmpvar, tmpvar4 >>
               ELSE /\ pc' = "kind0"
                    /\ sp_30' = sp_14 % 4
                    /\ UNCHANGED << ecx, ebx, ebp, tmpvar, tmpvar4, result >>
    /\ UNCHANGED << sp_18, sp_24, edi, mru, output, fixed >>

\* the literal written without moving the output cursor
AppendLiteralInPlace(c) ==
    /\ decoded' = [decoded EXCEPT ![out_pos + 1] = c % 256]
    /\ out_pos' = out_pos
    /\ sp_14' = sp_14 + 1
    /\ sp_18' = TABLE_50B8D8[sp_18 + 1]
    /\ pc' = "loop"

\* 004681B9: the literal ecx & 0xFF is appended
AppendLiteral(c) ==
    /\ decoded' = [decoded EXCEPT ![out_pos + 1] = c % 256]
    /\ out_pos' = out_pos + 1
    /\ sp_14' = sp_14 + 1
    /\ sp_18' = TABLE_50B8D8[sp_18 + 1]
    /\ pc' = "loop"

\* 0046809F-004680D9: one bit of a literal decoded without a reference byte
LiteralBit ==
    /\ pc = "literal"
    /\ \E b \in PopChoices :
        LET i == (ToInt(ebp) \div 2) + ecx
            r == DecodeBit(b, i, FALSE)
            c == ecx * 2 + r.bit
        IN  /\ Coder(r, i)
            /\ ecx' = c
            /\ IF c < 256
               THEN UNCHANGED << pc, sp_18, output >>
               ELSE AppendLiteral(c)
    /\ UNCHANGED << sp_24, sp_30, ebx, ebp, edi, tmpvar, tmpvar4, result, mru, fixed >>

\* 00468127-00468192: one bit of a literal decoded against a reference byte
LiteralRefBit ==
    /\ pc = "literal_ref"
    /\ \E b \in PopChoices :
        LET t == tmpvar * 2
            edx == And(ebx, t)
            sp_4c == sp_30 + (edx + ebx + ecx) * 2
            i == sp_4c \div 2
            r == DecodeBit(b, i, FALSE)
            c == ecx * 2 + r.bit
        IN  /\ Coder(r, i)
            /\ tmpvar' = t
            /\ ecx' = c
            /\ ebx' = IF r.bit = 0 THEN AndNot(ebx, edx) ELSE And(ebx, edx)
            /\ IF c < 256
               THEN UNCHANGED << pc, sp_18, output >>
               ELSE AppendLiteral(c)
    /\ UNCHANGED << sp_24, sp_30, ebp, edi, tmpvar4, result, mru, fixed >>


\* the state after a reference with the test sp_18 <= 7
AfterRefLate(lo, hi) == IF sp_18 <= 7 THEN lo ELSE hi

\* 00468322 / 00468437: the state after a reference, by the state before it
AfterRef(lo, hi) == IF sp_18 < 7 THEN lo ELSE hi

\* 004681E1-00468260: the first bit of the reference kind
DecodeKind0 ==
    /\ pc = "kind0"
    /\ \E b \in PopChoices :
        LET i == (sp_18 * 2 + 384) \div 2
            r == DecodeBit(b, i, TRUE)
        IN  /\ Coder(r, i)
            /\ IF r.bit = 0
               THEN /\ sp_18' = sp_18 + 12
                    /\ ecx' = 1636
                    /\ pc' = "len1"
                    /\ UNCHANGED result
               ELSE IF sp_44 = 0 /\ sp_14 = 0
               THEN /\ Leave("-1")
                    /\ UNCHANGED << sp_18, ecx >>
               ELSE /\ pc' = "kind1"
                    /\ UNCHANGED << sp_18, ecx, result >>
    /\ UNCHANGED << sp_24, sp_30, ebx, ebp, edi, tmpvar, tmpvar4, mru, output, fixed >>

\* the second bit of the reference kind with the trivial bits one row lower
DecodeKind1LowRow ==
    /\ pc = "kind1"
    /\ \E b \in PopChoices :
        LET i == (sp_18 * 2 + 408) \div 2
            r == DecodeBit(b, i, FALSE)
        IN  /\ Coder(r, i)
            /\ IF r.bit = 0
               THEN /\ ebx' = (((sp_18 + 14) * 16) + sp_30) * 2
                    /\ pc' = "trivial"
               ELSE /\ pc' = "kind2"
                    /\ UNCHANGED ebx
    /\ UNCHANGED << sp_18, sp_24, sp_30, ecx, ebp, edi, tmpvar, tmpvar4, result,
                    mru, output, fixed >>

\* 00468260-00468294, 00468348: the second bit of the reference kind
DecodeKind1 ==
    /\ pc = "kind1"
    /\ \E b \in PopChoices :
        LET i == (sp_18 * 2 + 408) \div 2
            r == DecodeBit(b, i, FALSE)
        IN  /\ Coder(r, i)
            /\ IF r.bit = 0
               THEN /\ ebx' = (((sp_18 + 15) * 16) + sp_30) * 2
                    /\ pc' = "trivial"
               ELSE /\ pc' = "kind2"
                    /\ UNCHANGED ebx
    /\ UNCHANGED << sp_18, sp_24, sp_30, ecx, ebp, edi, tmpvar, tmpvar4, result,
                    mru, output, fixed >>

\* the trivial-copy site with a nontrivial kind 1 that takes sp_28 to the head
DecodeTrivialPromotes ==
    /\ pc = "trivial"
    /\ \E b \in PopChoices :
        LET i == ebx \div 2
            r == DecodeBit(b, i, FALSE)
            src == BackIndex(sp_20, out_pos)
        IN  /\ Coder(r, i)
            /\ IF r.bit = 0
               THEN /\ sp_14' = sp_14 + 1
                    /\ IF PyOk(decoded, src)
                       THEN /\ decoded' = [decoded EXCEPT
                                             ![out_pos + 1] = PyGet(decoded, src)]
                            /\ out_pos' = out_pos + 1
                            /\ sp_18' = AfterRef(9, 11)
                            /\ pc' = "loop"
                            /\ UNCHANGED result
                       ELSE /\ Leave("IndexError")
                            /\ UNCHANGED << decoded, out_pos, sp_18 >>
                    /\ UNCHANGED << ecx, mru >>
               ELSE /\ sp_18' = AfterRef(8, 11)
                    /\ ecx' = 2664
                    /\ pc' = "len1"
                    /\ sp_20' = sp_28
                    /\ sp_28' = sp_20
                    /\ UNCHANGED << sp_2c, sp_40, result, output >>
    /\ UNCHANGED << sp_24, sp_30, ebx, ebp, edi, tmpvar, tmpvar4, fixed >>

\* 004682BF-00468322, 00468437: the one-byte-copy bit of a kind-1 reference
DecodeTrivial ==
    /\ pc = "trivial"
    /\ \E b \in PopChoices :
        LET i == ebx \div 2
            r == DecodeBit(b, i, FALSE)
            src == BackIndex(sp_20, out_pos)
        IN  /\ Coder(r, i)
            /\ IF r.bit = 0
               THEN /\ sp_14' = sp_14 + 1
                    /\ IF PyOk(decoded, src)
                       THEN /\ decoded' = [decoded EXCEPT
                                             ![out_pos + 1] = PyGet(decoded, src)]
                            /\ out_pos' = out_pos + 1
                            /\ sp_18' = AfterRef(9, 11)
                            /\ pc' = "loop"
                            /\ UNCHANGED result
                       ELSE /\ Leave("IndexError")
                            /\ UNCHANGED << decoded, out_pos, sp_18 >>
                    /\ UNCHANGED ecx
               ELSE /\ sp_18' = AfterRef(8, 11)
                    /\ ecx' = 2664
                    /\ pc' = "len1"
                    /\ UNCHANGED << result, output >>
    /\ UNCHANGED << sp_24, sp_30, ebx, ebp, edi, tmpvar, tmpvar4, mru, fixed >>

\* 0046839D, 00468431: kind 2 takes sp_28 to the head
MruKind2 == << sp_28, sp_20, sp_2c, sp_40 >>

\* kind 3 as an exchange of the head with the third entry
MruKind3Swap == << sp_2c, sp_28, sp_20, sp_40 >>

\* kind 3 with sp_28 overwritten before it is moved down
MruKind3Lost == << sp_2c, sp_20, sp_20, sp_40 >>

\* 004683F9, 0046842D: kind 3 takes sp_2c to the head
MruKind3 == << sp_2c, sp_20, sp_28, sp_40 >>

\* 00468402-00468431: kind 4 takes sp_40 to the head
MruKind4 == << sp_40, sp_20, sp_28, sp_2c >>

\* the push without sp_40 = sp_2c
MruPushKeepTail(d) == << WAdd(d, W(0, 1)), sp_20, sp_28, sp_40 >>

\* 004689FC: the distance d enters as d + 1 and the last entry leaves
MruPush(d) == << WAdd(d, W(0, 1)), sp_20, sp_28, sp_2c >>

\* the four distances become the tuple t
SetMru(t) == sp_20' = t[1] /\ sp_28' = t[2] /\ sp_2c' = t[3] /\ sp_40' = t[4]

\* 0046836D-004683A5, 00468437: the third bit of the reference kind
DecodeKind2 ==
    /\ pc = "kind2"
    /\ \E b \in PopChoices :
        LET i == (sp_18 * 2 + 432) \div 2
            r == DecodeBit(b, i, FALSE)
        IN  /\ Coder(r, i)
            /\ IF r.bit = 0
               THEN /\ SetMru(MruKind2)
                    /\ sp_18' = AfterRef(8, 11)
                    /\ ecx' = 2664
                    /\ pc' = "len1"
               ELSE /\ pc' = "kind3"
                    /\ UNCHANGED << mru, sp_18, ecx >>
    /\ UNCHANGED << sp_24, sp_30, ebx, ebp, edi, tmpvar, tmpvar4, result,
                    output, fixed >>

\* 004683CA-00468437: the fourth bit of the reference kind
DecodeKind3 ==
    /\ pc = "kind3"
    /\ \E b \in PopChoices :
        LET i == (sp_18 * 2 + 456) \div 2
            r == DecodeBit(b, i, FALSE)
        IN  /\ Coder(r, i)
            /\ SetMru(IF r.bit = 0 THEN MruKind3 ELSE MruKind4)
    /\ sp_18' = AfterRef(8, 11)
    /\ ecx' = 2664
    /\ pc' = "len1"
    /\ UNCHANGED << sp_24, sp_30, ebx, ebp, edi, tmpvar, tmpvar4, result, output, fixed >>

\* ------------------------------------------------------------ length
\* 0046844F-00468497: the first selector bit of the length
DecodeLen1 ==
    /\ pc = "len1"
    /\ \E b \in PopChoices :
        LET i == ecx \div 2
            r == DecodeBit(b, i, FALSE)
        IN  /\ Coder(r, i)
            /\ IF r.bit = 0
               THEN /\ ebx' = ecx + sp_30 * 2 * 8 + 4
                    /\ ebp' = W(0, 0)
                    /\ sp_30' = 8
                    /\ edi' = 1
                    /\ pc' = "lentree"
               ELSE /\ pc' = "len2"
                    /\ UNCHANGED << ebx, ebp, sp_30, edi >>
    /\ UNCHANGED << sp_18, sp_24, ecx, tmpvar, tmpvar4, result, mru, output, fixed >>

\* the second selector bit with the base 16 for both of its trees
DecodeLen2OneBase ==
    /\ pc = "len2"
    /\ \E b \in PopChoices :
        LET i == (ecx + 2) \div 2
            r == DecodeBit(b, i, FALSE)
        IN  /\ Coder(r, i)
            /\ IF r.bit = 0
               THEN /\ ebx' = ecx + sp_30 * 2 * 8 + 260
                    /\ ebp' = W(0, 16)
                    /\ sp_30' = 8
               ELSE /\ ebx' = ecx + 516
                    /\ ebp' = W(0, 16)
                    /\ sp_30' = 256
    /\ edi' = 1
    /\ pc' = "lentree"
    /\ UNCHANGED << sp_18, sp_24, ecx, tmpvar, tmpvar4, result, mru, output, fixed >>

\* 004684B3-004684F9: the second selector bit of the length
DecodeLen2 ==
    /\ pc = "len2"
    /\ \E b \in PopChoices :
        LET i == (ecx + 2) \div 2
            r == DecodeBit(b, i, FALSE)
        IN  /\ Coder(r, i)
            /\ IF r.bit = 0
               THEN /\ ebx' = ecx + sp_30 * 2 * 8 + 260
                    /\ ebp' = W(0, 8)
                    /\ sp_30' = 8
               ELSE /\ ebx' = ecx + 516
                    /\ ebp' = W(0, 16)
                    /\ sp_30' = 256
    /\ edi' = 1
    /\ pc' = "lentree"
    /\ UNCHANGED << sp_18, sp_24, ecx, tmpvar, tmpvar4, result, mru, output, fixed >>

\* 0046851D-00468595: one bit of the length tree; after the last one the
\* length code is ebp - sp_30 + edi, and a new distance starts its coarse code
LenTreeBit ==
    /\ pc = "lentree"
    /\ \E b \in PopChoices :
        LET i == (ebx + edi * 2) \div 2
            r == DecodeBit(b, i, FALSE)
            e == edi + edi + r.bit
            code == e + (ToInt(ebp) - sp_30)
        IN  /\ Coder(r, i)
            /\ IF e < sp_30
               THEN /\ edi' = e
                    /\ UNCHANGED << pc, sp_24, ecx, ebp, tmpvar >>
               ELSE /\ edi' = code
                    /\ sp_24' = code
                    /\ IF sp_18 >= 12
                       THEN /\ ecx' = (IF code >= 4 THEN 3 ELSE code) * 128 + 864
                            /\ tmpvar' = 1
                            /\ pc' = "coarse"
                       ELSE /\ pc' = "copy"
                            /\ UNCHANGED << ecx, tmpvar >>
                    /\ UNCHANGED ebp
    /\ UNCHANGED << sp_18, sp_30, ebx, tmpvar4, result, mru, output, fixed >>


\* ------------------------------------------------------------ distance
\* 004685AE-00468846: one bit of the coarse distance code c; after the last
\* one, c below 4 is the distance, c below 0x0e starts the adaptive low
\* bits and any other c the raw bits
CoarseBit ==
    /\ pc = "coarse"
    /\ \E b \in PopChoices :
        LET t == tmpvar * 2
            i == (ecx + t) \div 2
            r == DecodeBit(b, i, FALSE)
            t2 == t + r.bit
            c == t2 - 64
            n == (c \div 2) - 1
            head == (c % 2) + 2
        IN  /\ Coder(r, i)
            /\ tmpvar' = t2
            /\ IF t2 < 64
               THEN UNCHANGED << pc, ecx, ebx, ebp, edi, sp_30, sp_40 >>
               ELSE IF c < 4
               THEN /\ ebp' = FromInt(c)
                    /\ pc' = "push"
                    /\ UNCHANGED << ecx, ebx, edi, sp_30, sp_40 >>
               ELSE IF c < 14
               THEN /\ ebp' = FromInt(head * 2^n)
                    /\ edi' = 1
                    /\ sp_40' = W(0, 1)
                    /\ sp_30' = n
                    /\ ecx' = head * 2^n - c
                    /\ ebx' = (head * 2^n - c) * 2 + 1374
                    /\ pc' = "medium"
               ELSE /\ ebp' = FromInt(head)
                    /\ ecx' = n - 4
                    /\ sp_30' = n - 4
                    /\ pc' = "raw"
                    /\ UNCHANGED << ebx, edi, sp_40 >>
    /\ UNCHANGED << sp_18, sp_24, sp_20, sp_28, sp_2c, tmpvar4, result,
                    output, fixed >>

\* w left where it is
ShlNone(w) == w

\* w << 1
Shl1(w) == Norm(w.hi * 2, w.lo * 2)

\* 004687CE-0046880E: one adaptive low bit of a medium distance, lowest first
MediumBit ==
    /\ pc = "medium"
    /\ \E b \in PopChoices :
        LET i == (ebx + edi * 2) \div 2
            r == DecodeBit(b, i, FALSE)
        IN  /\ Coder(r, i)
            /\ edi' = edi + edi + r.bit
            /\ ebp' = IF r.bit = 0 THEN ebp ELSE WOr(ebp, sp_40)
    /\ sp_40' = Shl1(sp_40)
    /\ sp_30' = sp_30 - 1
    /\ pc' = IF sp_30 - 1 # 0 THEN "medium" ELSE "push"
    /\ UNCHANGED << sp_18, sp_24, sp_20, sp_28, sp_2c, ecx, ebx, tmpvar, tmpvar4,
                    result, output, fixed >>

\* 00468846-0046886D: one raw bit of a long distance, highest first
RawBit ==
    /\ pc = "raw"
    /\ \E b \in PopChoices :
        LET s == pop_byte(b)
            eax == Shr1(s.EAX)
            esi == Mask32(WSub(s.ESI, eax))
            neg == esi.hi \div 32768
            e == Norm(ebp.hi * 2, ebp.lo * 2 + 1 - neg)
        IN  /\ EAX' = eax
            /\ ESI' = IF neg = 1 THEN Mask32(WAdd(esi, eax)) ELSE esi
            /\ in_pos' = s.in_pos
            /\ byte_input' = s.input
            /\ IF sp_30 - 1 # 0
               THEN /\ ebp' = e
                    /\ UNCHANGED << pc, tmpvar, tmpvar4 >>
               ELSE /\ ebp' = Norm(e.hi * 16, e.lo * 16)
                    /\ tmpvar' = 1
                    /\ tmpvar4' = 0
                    /\ pc' = "tail"
    /\ sp_30' = sp_30 - 1
    /\ UNCHANGED << garbage, sp_18, sp_24, ecx, ebx, edi, result, mru, output, fixed >>

\* -1 in limbs: what 004689F6 compares the distance with
MinusOne == W(-1, 65535)

\* 0046886D-004689F6: one bit of the shared tail of a long distance, lowest
\* first; after the last one, the test for the distance -1
TailBit ==
    /\ pc = "tail"
    /\ \E b \in PopChoices :
        LET t == tmpvar * 2
            i == (1604 + t) \div 2
            r == DecodeBit(b, i, FALSE)
            e == IF r.bit = 0 THEN ebp ELSE WOr(ebp, FromInt(2^tmpvar4))
        IN  /\ Coder(r, i)
            /\ tmpvar' = t + r.bit
            /\ ebp' = e
            /\ IF tmpvar4 + 1 < 4
               THEN UNCHANGED << pc, result, sp_18, sp_24 >>
               ELSE IF e = MinusOne
               THEN /\ sp_24' = sp_24 + 274
                    /\ sp_18' = sp_18 - 12
                    /\ Leave("decoded")
               ELSE /\ pc' = "push"
                    /\ UNCHANGED << result, sp_18, sp_24 >>
    /\ tmpvar4' = tmpvar4 + 1
    /\ UNCHANGED << sp_30, ecx, ebx, edi, mru, output, fixed >>

\* 004689FC-00468A31: the new distance enters the four distances
PushDistance ==
    /\ pc = "push"
    /\ SetMru(MruPush(ebp))
    /\ IF (sp_20' # W(0, 0) /\ WLe(sp_20', W(0, 0))) \/ 0 >= sp_14
       THEN /\ Leave("-3")
            /\ UNCHANGED << sp_18, edi >>
       ELSE /\ sp_18' = IF sp_18 < 19 THEN 7 ELSE 10
            /\ edi' = sp_24
            /\ pc' = "copy"
            /\ UNCHANGED result
    /\ UNCHANGED << byte_input, EAX, ESI, in_pos, garbage, sp_24, sp_30, ecx, ebx,
                    ebp, tmpvar, tmpvar4, output, fixed >>


\* ------------------------------------------------------------ copy
Min(a, b) == IF a < b THEN a ELSE b

\* 00468A8C-00468AC4: k times decoded[to] = decoded[from], both advancing;
\* in the second loop (wrap) the source returns to 0 when it reaches sp_38.
\* ok is FALSE when a read raises IndexError.
\* the copy with every byte read from the buffer as it was before the copy
CopySnapshot(buf, from, to, k, wrap) ==
    LET idx(j) == IF wrap /\ from + j >= sp_38 THEN from + j - sp_38 ELSE from + j
    IN  IF \E j \in 0..(k - 1) : ~PyOk(buf, idx(j))
        THEN [ok |-> FALSE, buf |-> buf]
        ELSE [ok |-> TRUE,
              buf |-> [i \in 1..Len(buf) |->
                         IF i - 1 >= to /\ i - 1 < to + k
                         THEN PyGet(buf, idx(i - 1 - to)) ELSE buf[i]]]

RECURSIVE CopyLoop(_, _, _, _, _)
CopyLoop(buf, from, to, k, wrap) ==
    IF k = 0 THEN [ok |-> TRUE, buf |-> buf]
    ELSE IF ~PyOk(buf, from) THEN [ok |-> FALSE, buf |-> buf]
    ELSE CopyLoop([buf EXCEPT ![to + 1] = PyGet(buf, from)],
                  IF wrap /\ from + 1 = sp_38 THEN 0 ELSE from + 1,
                  to + 1, k - 1, wrap)

\* the copy length without the cut at the announced length
CopyLengthNotCut == edi + 2

\* the number of bytes the copy writes (00468A5B)
CopyLength == Min(sp_64 - out_pos, edi + 2)

\* 00468A46-00468AC4: the copy of a reference with a decoded length
Copy ==
    /\ pc = "copy"
    /\ IF sp_64 = out_pos
       THEN /\ Leave("-4")
            /\ UNCHANGED << sp_24, sp_30, output >>
       ELSE LET n == CopyLength
                from == BackIndex(sp_20, out_pos)
                c == CopyLoop(decoded, from, out_pos, n, ~(from + n <= sp_38))
            IN  /\ sp_30' = n
                /\ sp_14' = sp_14 + n
                /\ sp_24' = edi + 2 - n
                /\ decoded' = c.buf
                /\ IF c.ok
                   THEN /\ out_pos' = out_pos + n
                        /\ pc' = "loop"
                        /\ UNCHANGED result
                   ELSE /\ out_pos' = IF from + n <= sp_38 THEN out_pos + n
                                      ELSE out_pos
                        /\ Leave("IndexError")
    /\ UNCHANGED << byte_input, EAX, ESI, in_pos, garbage, sp_18, ecx, ebx, ebp,
                    edi, tmpvar, tmpvar4, mru, fixed >>

\* ------------------------------------------------------------ specification
Next ==
    \/ ReturnDecoded
    \/ PopIndexError
    \/ DecodeIsRef
    \/ LiteralBit
    \/ LiteralRefBit
    \/ DecodeKind0
    \/ DecodeKind1
    \/ DecodeTrivial
    \/ DecodeKind2
    \/ DecodeKind3
    \/ DecodeLen1
    \/ DecodeLen2
    \/ LenTreeBit
    \/ CoarseBit
    \/ MediumBit
    \/ RawBit
    \/ TailBit
    \/ PushDistance
    \/ Copy

Spec == Init /\ [][Next]_vars

\* ------------------------------------------------------------ longer outputs
\* The decoder on announced lengths up to MaxUnpacked + 1, for the payloads
\* over the alphabet with the byte 0.
LongInit ==
    /\ byte_input \in { PackLE(n) \o <<0>> \o e :
                          n \in 0..(MaxUnpacked + 1), e \in [1..4 -> {0, 32, 192}] }
    /\ packed_length \in 9..MaxPacked
    /\ EAX = W(65535, 65535)
    /\ ESI = UnpackBE(byte_input)
    /\ in_pos = 9
    /\ sp_14 = 0
    /\ sp_18 = 0
    /\ out_pos = 0
    /\ sp_20 = W(0, 1)
    /\ sp_28 = W(0, 1)
    /\ sp_2c = W(0, 1)
    /\ sp_40 = W(0, 1)
    /\ sp_24 = 0
    /\ sp_30 = 0
    /\ sp_38 = UnpackLE(byte_input)
    /\ sp_64 = UnpackLE(byte_input)
    /\ decoded = Zeros(UnpackLE(byte_input))
    /\ garbage = << >>
    /\ ecx = 0
    /\ ebx = 0
    /\ ebp = W(0, 0)
    /\ edi = 0
    /\ tmpvar = 0
    /\ tmpvar4 = 0
    /\ pc = "loop"
    /\ result = ""
    /\ left_pad = 0
    /\ first = NoCall

LongSpec == LongInit /\ [][Next]_vars

\* ------------------------------------------------------------ two calls
\* A second call of mischief_unpack on the object the first call was given.
\* byte_input += bytearray([0,0,0,0]) (line 78) extends a bytearray in place
\* and rebinds the local name for bytes: pad is the number of bytes the first
\* call has left at the end of the object, 4 or 0.  The bytes of the payload
\* that the first call did not read are still chosen when they are read.
CallAgain ==
    /\ pc = "done"
    /\ first = NoCall
    /\ \E pad \in {0, 4} :
         /\ left_pad' = pad
         /\ packed_length' = packed_length + pad
    /\ first' = [result |-> result,
                 decoded |-> IF result = "decoded" THEN decoded ELSE << >>]
    /\ EAX' = W(65535, 65535)
    /\ ESI' = UnpackBE(byte_input)
    /\ in_pos' = 9
    /\ sp_14' = 0
    /\ sp_18' = 0
    /\ out_pos' = 0
    /\ sp_20' = W(0, 1)
    /\ sp_28' = W(0, 1)
    /\ sp_2c' = W(0, 1)
    /\ sp_40' = W(0, 1)
    /\ sp_24' = 0
    /\ sp_30' = 0
    /\ decoded' = Zeros(UnpackLE(byte_input))
    /\ garbage' = << >>
    /\ ecx' = 0
    /\ ebx' = 0
    /\ ebp' = W(0, 0)
    /\ edi' = 0
    /\ tmpvar' = 0
    /\ tmpvar4' = 0
    /\ pc' = "loop"
    /\ result' = ""
    /\ UNCHANGED << byte_input, sp_38, sp_64 >>

TwiceNext == Next \/ CallAgain

\* the inputs of the two calls: the payloads over one of the alphabets
TwiceInit == Init /\ \A k \in 6..9 : byte_input[k] \in {96, 128, 255}

TwiceSpec == TwiceInit /\ [][TwiceNext]_vars

\* ------------------------------------------------------------ one cell
\* A cell of the probability array under every sequence of adaptations: the
\* decode sites change a cell only to Stored(AdaptUp(p)) or
\* Stored(AdaptDown(p)), whatever the input.
others == << byte_input, packed_length, EAX, ESI, in_pos, sp_14, sp_18, out_pos,
             sp_20, sp_28, sp_2c, sp_40, sp_24, sp_30, sp_38, sp_64, decoded,
             ecx, ebx, ebp, edi, tmpvar, tmpvar4, pc, result,
             left_pad, first >>

ProbInit ==
    /\ Init
    /\ packed_length = 9
    /\ byte_input = PackLE(0) \o << 0, 96, 96, 96, 96 >>

CellUp ==
    /\ garbage' = Put(0, AdaptUp(Cell(0)))
    /\ UNCHANGED others

CellDown ==
    /\ garbage' = Put(0, AdaptDown(Cell(0)))
    /\ UNCHANGED others

ProbNext == CellUp \/ CellDown

ProbSpec == ProbInit /\ [][ProbNext]_vars

\* The two adaptations as functions of p: the cell starts at any value of
\* 1..0x7FF, in the decoder as it stands on entry for the nine-byte input
\* 00 00 00 00 00 60 60 60 60.
AdaptInit ==
    /\ garbage \in { (0 :> p) : p \in 1..2047 }
    /\ byte_input = PackLE(0) \o << 0, 96, 96, 96, 96 >>
    /\ packed_length = 9
    /\ EAX = W(65535, 65535)
    /\ ESI = UnpackBE(byte_input)
    /\ in_pos = 9
    /\ sp_14 = 0
    /\ sp_18 = 0
    /\ out_pos = 0
    /\ sp_20 = W(0, 1)
    /\ sp_28 = W(0, 1)
    /\ sp_2c = W(0, 1)
    /\ sp_40 = W(0, 1)
    /\ sp_24 = 0
    /\ sp_30 = 0
    /\ sp_38 = 0
    /\ sp_64 = 0
    /\ decoded = << >>
    /\ ecx = 0
    /\ ebx = 0
    /\ ebp = W(0, 0)
    /\ edi = 0
    /\ tmpvar = 0
    /\ tmpvar4 = 0
    /\ pc = "loop"
    /\ result = ""
    /\ left_pad = 0
    /\ first = NoCall

AdaptSpec == AdaptInit /\ [][ProbNext]_vars


\* ------------------------------------------------------------ properties
\* control is at a decode site: the next thing the code does is call _pop_byte
AtDecodeSite ==
    /\ pc \notin {"done", "push", "copy"}
    /\ pc = "loop" => LoopCondition

\* C1: when the main loop is left with fewer bytes produced than the announced
\* length, the call ends with an error and not with an output buffer.
C1_StreamUnderflow == (pc = "done" /\ out_pos < sp_38) => result # "decoded"

\* C2: when the copy of a reference would take the output past the announced
\* length, the call fails with the overflow error (-4) and nothing is copied.
C2_StreamOverflow ==
    [][(pc = "copy" /\ out_pos + edi + 2 > sp_64)
         => (result' = "-4" /\ decoded' = decoded /\ out_pos' = out_pos)]_vars

\* C3: when the call ends on a token decoded while the output is empty and
\* does not return the buffer (the token was a reference, of whatever kind),
\* it returns -1 and has written no byte.
C3_EmptyHistory ==
    (pc = "done" /\ sp_14 = 0 /\ out_pos = 0 /\ result # "decoded")
        => (result = "-1" /\ decoded = Zeros(sp_38))

\* C4: when the last bit of a new distance makes it 0xFFFFFFFF, the main loop
\* is left and the buffer returned, without a push on the four distances and
\* without a copy.
C4_AllOnesTerminates ==
    [][(pc = "tail" /\ tmpvar4' = 4 /\ ebp' = MAXINT)
         => (pc' = "done" /\ result' = "decoded"
             /\ UNCHANGED mru /\ UNCHANGED output)]_vars

\* C5: every byte _pop_byte reads lies below len(input) + 4, inside the
\* payload or its four pad bytes.
C5_ReadsInsidePad == (AtDecodeSite /\ NeedPop) => in_pos < packed_length + 4

\* C6: the number of bytes written never exceeds the announced length, and a
\* returned buffer has exactly the announced length.
C6_OutputBounded ==
    /\ out_pos <= UnpackLE(byte_input)
    /\ result = "decoded" => Len(decoded) = UnpackLE(byte_input)

\* C6 witness: a copy that was cut at the announced length filled the buffer,
\* which was then returned.
C6_Witness ==
    /\ result = "decoded"
    /\ out_pos = UnpackLE(byte_input)
    /\ out_pos >= 2
    /\ sp_24 > 0


\* EAX right after the conditional renormalisation of _pop_byte
AfterPopEAX == pop_byte(0).EAX

\* C7: at every decode step, right after the single conditional
\* renormalisation, 0x01000000 <= EAX <= 0xFFFFFFFF.
C7_ScaleRange ==
    AtDecodeSite => (WLe(W(256, 0), AfterPopEAX) /\ WLe(AfterPopEAX, MAXINT))

\* C7 witness: a raw-bit step and an adaptive step that renormalise, after
\* cells have been adapted.
C7_Witness ==
    /\ pc \in {"raw", "lentree"}
    /\ NeedPop
    /\ in_pos > 10
    /\ sp_14 > 0

\* C8: every cell of the probability array holds a value in 1..0x7FF.
C8_ProbRange ==
    /\ DOMAIN garbage \subseteq 0..(garbage_length \div 2 - 1)
    /\ \A i \in DOMAIN garbage : garbage[i] >= 1 /\ garbage[i] <= 2047

\* C8 witness: a cell adapted downward until it no longer moves.
C8_Witness == Cell(0) = 31 /\ AdaptDown(Cell(0)) = Cell(0)

\* how often x occurs among the four entries of t
Count(x, t) == Cardinality({k \in 1..4 : t[k] = x})

\* t and u hold the same entries, each as often
SameEntries(t, u) ==
    \A k \in 1..4 : Count(t[k], t) = Count(t[k], u) /\ Count(u[k], t) = Count(u[k], u)

\* C9: a step outside a new-distance reference keeps the multiset of the
\* four distances (a reused distance only permutes them); inside one, the
\* decoding of the distance touches only the last entry, and the push keeps
\* the first three entries, one place down: only the last entry is lost.
C9_MruMultiset ==
    [][/\ pc \notin {"coarse", "medium", "push"} => SameEntries(mru, mru')
       /\ pc \in {"coarse", "medium"}
            => << sp_20', sp_28', sp_2c' >> = << sp_20, sp_28, sp_2c >>
       /\ pc = "push"
            => << sp_28', sp_2c', sp_40' >> = << sp_20, sp_28, sp_2c >>]_vars

\* C9 witness: a reused-distance reference of kind 3 has taken the third
\* distance to the head, past two different distances.
C9_Witness ==
    /\ pc = "len1"
    /\ ecx = 2664
    /\ sp_20 # sp_28
    /\ sp_28 # sp_2c
    /\ \E i \in 228..239 : i \in DOMAIN garbage /\ garbage[i] > 1024

\* the byte d back from pos lies before the start of the output
PreHistory(d, pos) == WLt(FromInt(pos), d)

\* C10: a lookup of an earlier byte at a distance that reaches before the
\* start of the output reads 0: as the reference byte of a literal, in a
\* one-byte copy, and for every byte of a copy.
C10_PreHistoryZero ==
    [][/\ (pc = "loop" /\ LoopCondition /\ PopChoices # {} /\ sp_18 >= 7
              /\ pc' \in {"literal_ref", "done"} /\ PreHistory(sp_20, out_pos))
            => (pc' = "literal_ref" /\ tmpvar' = 0)
       /\ (pc = "trivial" /\ sp_14' = sp_14 + 1 /\ PreHistory(sp_20, out_pos))
            => (pc' = "loop" /\ decoded'[out_pos + 1] = 0)
       /\ (pc = "copy" /\ out_pos < sp_64)
            => /\ pc' = "loop"
               /\ \A k \in 0..(CopyLength - 1) :
                    PreHistory(sp_20, out_pos + k) => decoded'[out_pos + k + 1] = 0
      ]_vars

\* C11: a copy of n bytes at distance d = sp_20 - 1 into an output of
\* length L = out_pos, with d < n and d < L, appends n bytes and leaves
\* out[L + k] = out[L + k - d - 1] for every k in 0..n-1, the bytes written
\* earlier in the same copy included; the bytes before L are unchanged.
C11_OverlappingCopy ==
    [][(/\ pc = "copy"
        /\ out_pos < sp_64
        /\ WLe(sp_20, FromInt(out_pos))
        /\ WLe(sp_20, FromInt(CopyLength)))
         => /\ pc' = "loop"
            /\ out_pos' = out_pos + CopyLength
            /\ \A k \in 0..(CopyLength - 1) :
                 decoded'[out_pos + k + 1] = decoded'[out_pos + k + 1 - ToInt(sp_20)]
            /\ \A i \in 1..out_pos : decoded'[i] = decoded[i]]_vars

\* C11 witness: a copy of sp_30 bytes at a distance below sp_30 and below the
\* length before it has run and has filled a run of a nonzero byte.
C11_Witness ==
    /\ pc = "loop"
    /\ sp_18 \in {7, 8, 10}
    /\ sp_30 >= 2
    /\ WLe(sp_20, FromInt(sp_30))
    /\ WLe(sp_20, FromInt(out_pos - sp_30))
    /\ decoded[out_pos] # 0
    /\ decoded[out_pos] = decoded[out_pos - 1]

\* C12: with announced length 0 no decode step runs: the input cursor stays
\* at 9, no probability cell, distance or state index changes, and the
\* function returns the empty buffer.
C12_EmptyPayload ==
    sp_38 = 0 =>
        /\ in_pos = 9
        /\ garbage = << >>
        /\ mru = << W(0, 1), W(0, 1), W(0, 1), W(0, 1) >>
        /\ sp_18 = 0
        /\ decoded = << >>
        /\ pc \in {"loop", "done"}
        /\ pc = "done" => result = "decoded"

\* C12 witness: the function has returned for an input that announces
\* length 0 and carries payload bytes after the prefix.
C12_Witness ==
    /\ sp_38 = 0
    /\ pc = "done"
    /\ packed_length > 9

\* C13: a second call on the input object of a first call returns what
\* the first call returned (the same value, exception or buffer).
C13_SameResultTwice ==
    (pc = "done" /\ first # NoCall) =>
        /\ result = first.result
        /\ result = "decoded" => decoded = first.decoded

\* the state index the current token started with: a new-distance reference
\* carries it raised by 0x0c from its first bit to its push
HeadState == IF sp_18 >= 12 THEN sp_18 - 12 ELSE sp_18

\* C14: the state after a reference is 7 or 10 (new distance), 8 or 11
\* (reused distance), 9 or 11 (trivial copy), the second value exactly when
\* the token started in a state >= 7; a literal leaves a state below 7 and a
\* reference a state >= 7, so that the state at a loop head is >= 7 iff the
\* previous token was a reference; no other step changes the state a token
\* started with.
C14_StateAfterReference ==
    [][/\ pc = "loop" => sp_18 \in 0..11
       /\ (pc = "push" /\ pc' = "copy")
            => sp_18' = IF HeadState >= 7 THEN 10 ELSE 7
       /\ (pc \in {"kind2", "kind3", "trivial"} /\ pc' = "len1")
            => sp_18' = IF HeadState >= 7 THEN 11 ELSE 8
       /\ (pc = "trivial" /\ pc' = "loop")
            => sp_18' = IF HeadState >= 7 THEN 11 ELSE 9
       /\ (pc = "copy" /\ pc' = "loop") => (sp_18' = sp_18 /\ sp_18 >= 7)
       /\ (pc \in {"literal", "literal_ref"} /\ pc' = "loop") => sp_18' < 7
       /\ (/\ pc' \notin {"loop", "done"}
           /\ pc # "push"
           /\ ~(pc \in {"kind2", "kind3", "trivial"} /\ pc' = "len1"))
            => HeadState' = HeadState]_vars

\* C14 witness: a new-distance reference that followed a reference has been
\* completed.
C14_Witness ==
    /\ pc = "loop"
    /\ sp_18 = 10
    /\ out_pos >= 2

\* the after_literal links: 0..3 -> 0, 4..9 -> s - 3, 10 -> 4, 11 -> 5
AfterLiteral(s) == IF s <= 3 THEN 0 ELSE IF s <= 9 THEN s - 3 ELSE s - 6

\* C15: a literal takes state s to TABLE_50B8D8[s], which is the
\* after_literal link of s; the state at a loop head is in 0..11; three
\* links from any state lead to state 0, which a literal keeps.
C15_StateAfterLiteral ==
    [][/\ pc = "loop" => sp_18 \in 0..11
       /\ (pc \in {"literal", "literal_ref"} /\ pc' = "loop")
            => /\ sp_18' = TABLE_50B8D8[sp_18 + 1]
               /\ sp_18' = AfterLiteral(sp_18)
               /\ TABLE_50B8D8[TABLE_50B8D8[sp_18' + 1] + 1] = 0
       /\ \A t \in 0..11 :
            /\ TABLE_50B8D8[t + 1] = AfterLiteral(t)
            /\ AfterLiteral(AfterLiteral(AfterLiteral(t))) = 0
       /\ TABLE_50B8D8[1] = 0]_vars

\* C15 witness: two literals have followed a reference: the state is the
\* second link of a chain that started at 7..11.
C15_Witness ==
    /\ pc = "loop"
    /\ sp_18 \in {1, 2, 3}
    /\ out_pos >= 4

\* the byte d = dist - 1 back from the end of an output of length pos: 0 when
\* the distance reaches before the start of the output
Earlier(dist, pos) ==
    IF PreHistory(dist, pos) THEN 0 ELSE decoded[pos - ToInt(dist) + 1]

\* C16: a trivial copy appends exactly one byte, the byte at the distance
\* at the head of the MRU, goes back to the loop head without decoding a
\* length, and leaves the four distances unchanged.
C16_TrivialCopy ==
    [][(pc = "trivial" /\ sp_14' = sp_14 + 1)
         => /\ pc' = "loop"
            /\ out_pos' = out_pos + 1
            /\ decoded' = [decoded EXCEPT ![out_pos + 1] = Earlier(sp_20, out_pos)]
            /\ UNCHANGED << mru, sp_24, edi >>]_vars

\* control is inside a new-distance reference, before its push
InNewDistance ==
    /\ sp_18 >= 12
    /\ pc \in {"len1", "len2", "lentree", "coarse", "medium", "raw", "tail"}

\* C17: a new-distance reference that has decoded the distance D = ebp turns
\* the distances [m0, m1, m2, m3] into [D, m0, m1, m2] (an entry holds its
\* distance plus one): the push stores D + 1 and moves the first three
\* entries down, and the steps that decode the length and D, on any of the
\* three paths, leave the first three entries as the token found them.
C17_NewDistancePush ==
    [][/\ pc = "push"
            => mru' = << WAdd(ebp, W(0, 1)), sp_20, sp_28, sp_2c >>
       /\ InNewDistance => UNCHANGED << sp_20, sp_28, sp_2c >>
       /\ (pc = "kind0" /\ sp_18' >= 12) => UNCHANGED mru]_vars

\* C17 witness: a distance of the medium path (4..127) has been pushed, and
\* the last entry is the former third entry 1, not the bit mask the medium
\* path left in sp_40.
C17_Witness ==
    /\ pc = "copy"
    /\ sp_18 \in {7, 10}
    /\ WLe(W(0, 5), sp_20)
    /\ WLe(sp_20, W(0, 128))
    /\ sp_28 # sp_20
    /\ sp_40 = W(0, 1)

\* the entry at index k - 1 of t moved to the head, the entries 0..k-2 one
\* place down, the entries beyond index k - 1 untouched
Promote(t, k) ==
    [j \in 1..4 |-> IF j = 1 THEN t[k] ELSE IF j <= k THEN t[j - 1] ELSE t[j]]

\* the adaptive bit decoded on cell i by the step: 0 adapts the cell upward
BitZero(i) == garbage'[i] > Cell(i)

\* control is inside a reused-distance reference, after its kind is decoded
InReused == sp_18 \in {8, 11} /\ pc \in {"len1", "len2", "lentree", "copy"}

\* C18: a reused-distance reference of kind k moves the entry at index k - 1
\* to the head (kind 1 leaves the MRU as it is), the decoding of its length
\* leaves the MRU alone, and its copy reads at the distance of the new head.
C18_ReusedPromotes ==
    [][/\ (pc = "trivial" /\ pc' \in {"len1", "loop"}) => mru' = Promote(mru, 1)
       /\ (pc = "kind2" /\ pc' = "len1") => mru' = Promote(mru, 2)
       /\ (pc = "kind3" /\ pc' = "len1")
            => mru' = Promote(mru, IF BitZero(228 + sp_18) THEN 3 ELSE 4)
       /\ (InReused /\ pc # "copy") => UNCHANGED mru
       /\ (InReused /\ pc = "copy" /\ pc' = "loop" /\ ~PreHistory(sp_20, out_pos))
            => /\ UNCHANGED mru
               /\ decoded'[out_pos + 1] = decoded[out_pos + 1 - ToInt(sp_20)]]_vars

\* C18 witness: a reference of kind 3 or 4, which took an entry past a
\* different head, has reached its copy.
C18_Witness ==
    /\ pc = "copy"
    /\ sp_18 \in {8, 11}
    /\ sp_20 # sp_28
    /\ \E i \in 228..239 : i \in DOMAIN garbage

\* C19 as stated: a kind-1 nontrivial reference moves the entry at index 1
\* to the head.
C19_Kind1PromotesIndex1 ==
    [][(pc = "trivial" /\ pc' = "len1") => mru' = Promote(mru, 2)]_vars


\* C19, amended: a kind-1 nontrivial reference leaves the four distances as
\* they are (it uses the entry at index 0), goes on to decode a length as a
\* reused-distance reference, keeps the head up to its copy, and the copy
\* reads at the distance of that head.
C19_Kind1KeepsHead ==
    [][/\ (pc = "trivial" /\ pc' = "len1") => (mru' = mru /\ InReused' /\ ecx' = 2664)
       /\ InReused => sp_20' = sp_20
       /\ (InReused /\ pc = "copy" /\ pc' = "loop" /\ ~PreHistory(sp_20, out_pos))
            => \A k \in 0..(CopyLength - 1) :
                 decoded'[out_pos + k + 1] = decoded'[out_pos + k + 1 - ToInt(sp_20)]]_vars

\* C19 witness: a kind-1 nontrivial reference has been decoded with a head
\* that differs from the entry at index 1; no reference of kind 2, 3 or 4
\* has been decoded before.
C19_Witness ==
    /\ pc = "len1"
    /\ ecx = 2664
    /\ sp_20 # sp_28
    /\ \A i \in 216..227 : i \notin DOMAIN garbage
    /\ \E i \in 240..431 : i \in DOMAIN garbage /\ garbage[i] < 1024

\* the upward adaptation as the specification writes it
SpecUp(p) == p - ((p + 31) \div 32) + 64

\* C20: for the value p of a cell, any of 1..0x7FF, the upward adaptation
\* of the code equals p - ((p + 0x1F) >> 5) + 0x40 and the downward
\* adaptation is p - (p >> 5); an adaptation step stores one of the two.
C20_AdaptFormulas ==
    [][/\ AdaptUp(Cell(0)) = SpecUp(Cell(0))
       /\ AdaptDown(Cell(0)) = Cell(0) - (Cell(0) \div 32)
       /\ Cell(0) \in 1..2047
       /\ garbage'[0] \in {SpecUp(Cell(0)), Cell(0) - (Cell(0) \div 32)}]_vars

\* C20 witness: a cell whose value is no multiple of 32 and is the upward
\* adaptation of a smaller value.
C20_Witness ==
    /\ Cell(0) % 32 = 5
    /\ \E q \in 1..2047 : q < Cell(0) /\ AdaptUp(q) = Cell(0)

\* ------------------------------------------------------------ C21
\* the length tree a "lentree" state decodes in, by its offset ebx - ecx in
\* the length coder: the 0..7 trees of the four subcontexts, their 8..15
\* trees, or the one tree of 16..271
LowTree == ebx - ecx \in {4 + 16 * k : k \in 0..3}

MidTree == ebx - ecx \in {260 + 16 * k : k \in 0..3}

HighTree == ebx - ecx = 516

\* C21: the length decoded before the +2 bias lies in 0..7 when the first
\* selector bit is 0, in 8..15 when the selector bits are 1,0 and in 16..271
\* when they are 1,1; every non-trivial copy is asked for 2..273 bytes.
C21_LengthRanges ==
    [][ /\ (pc = "len1" /\ pc' = "lentree") => (BitZero(ecx \div 2) /\ LowTree')
        /\ (pc = "len1" /\ pc' = "len2") => ~BitZero(ecx \div 2)
        /\ (pc = "len2" /\ pc' = "lentree") =>
              IF BitZero((ecx + 2) \div 2) THEN MidTree' ELSE HighTree'
        /\ (pc = "lentree" /\ pc' \in {"coarse", "copy"}) =>
              /\ LowTree \/ MidTree \/ HighTree
              /\ LowTree => sp_24' \in 0..7
              /\ MidTree => sp_24' \in 8..15
              /\ HighTree => sp_24' \in 16..271
              /\ pc' = "copy" => edi' = sp_24'
        /\ (pc = "push" /\ pc' = "copy") => (edi' = sp_24 /\ sp_24 \in 0..271)
        /\ pc = "copy" => edi + 2 \in 2..273
      ]_vars

\* a length of the 16..271 tree has been decoded for a copy
C21_Witness == pc = "copy" /\ edi >= 16

\* ------------------------------------------------------------ C22
\* the spec's nmsb and extra of a coarse code c of 4 or more
Nmsb(c) == c % 2

Extra(c) == 1 + ((c - 4) \div 2)

\* w >> k
ShrN(w, k) ==
    IF k < 16 THEN W(w.hi \div 2^k, (w.hi % 2^k) * 2^(16 - k) + w.lo \div 2^k)
    ELSE W(0, w.hi \div 2^(k - 16))

\* the coarse code of a state that decodes, or has decoded, the adaptive low
\* bits of a medium distance: tmpvar2 - 0x40, which those bits leave alone
CoarseCode == tmpvar - 64

\* the low bits a long distance has so far below its two leading bits: the
\* raw bits read, and the four places of the shared tree once they are read
LowBits == IF pc = "raw" THEN ecx - sp_30 ELSE ecx + 4

\* the leading part of a long distance
RawHead == ShrN(ebp, LowBits)

\* the distance at "push" was decoded by the coarse tree alone, by the
\* medium trees, or by the raw bits and the shared tree
ByCoarse == pc = "push" /\ tmpvar \in 64..67

ByMedium == pc = "push" /\ tmpvar \in 68..77

ByTail == pc = "push" /\ tmpvar \in 16..31

\* C22: a coarse code c below 4 is the distance; otherwise the distance is
\* in [(2 | nmsb) << extra, (((2 | nmsb) + 1) << extra) - 1], its low extra
\* bits decoded lowest first by an adaptive tree when extra < 6, and as
\* extra - 4 raw bits followed by the shared 4-bit tree, lowest first, when
\* extra >= 6.
C22_DistanceRanges ==
    [][ /\ (pc = "coarse" /\ pc' # "coarse" /\ tmpvar' >= 64) =>
              LET c == tmpvar' - 64
              IN  /\ c \in 0..63
                  /\ c < 4 => (pc' = "push" /\ ebp' = FromInt(c))
                  /\ (c >= 4 /\ Extra(c) < 6) =>
                        /\ pc' = "medium"
                        /\ ebp' = FromInt((2 + Nmsb(c)) * 2^Extra(c))
                        /\ sp_30' = Extra(c)
                        /\ sp_40' = W(0, 1)
                  /\ Extra(c) >= 6 =>
                        /\ pc' = "raw"
                        /\ RawHead' = W(0, 2 + Nmsb(c))
                        /\ sp_30' = Extra(c) - 4
                        /\ ecx' = Extra(c) - 4
        /\ (pc = "medium" \/ ByMedium) =>
              LET c == CoarseCode
                  lo == (2 + Nmsb(c)) * 2^Extra(c)
                  done == Extra(c) - (IF pc = "medium" THEN sp_30 ELSE 0)
              IN  /\ c \in 4..13
                  /\ ToInt(ebp) \in lo..(lo + 2^done - 1)
                  /\ ToInt(ebp) <= (3 + Nmsb(c)) * 2^Extra(c) - 1
                  /\ pc = "medium" => sp_40 = W(0, 2^done)
        /\ (pc = "medium" /\ pc' \in {"medium", "push"}) =>
              /\ garbage' # garbage
              /\ ebp' = (IF BitZero((ebx + edi * 2) \div 2) THEN ebp
                         ELSE WAdd(ebp, sp_40))
              /\ CoarseCode' = CoarseCode
        /\ (pc = "raw" /\ pc' \in {"raw", "tail"}) =>
              /\ garbage' = garbage
              /\ RawHead' = RawHead
              /\ sp_30' = sp_30 - 1
              /\ pc' = "tail" <=> sp_30' = 0
              /\ pc' = "tail" => (ebp'.lo % 16 = 0 /\ tmpvar4' = 0)
        /\ (pc = "tail" /\ pc' \in {"tail", "push"}) =>
              /\ garbage' # garbage
              /\ RawHead' = RawHead
              /\ ebp' = (IF BitZero((1604 + tmpvar * 2) \div 2) THEN ebp
                         ELSE WAdd(ebp, W(0, 2^tmpvar4)))
      ]_vars

\* a distance of the raw bits and the shared tree, with nmsb = 1, is complete
C22_Witness == ByTail /\ RawHead = W(0, 3)

\* ------------------------------------------------------------ C23
\* C23: a literal is decoded with a reference byte exactly when the token
\* before it was a reference (a token that ends leaves sp_18 below 7 when it
\* is a literal and at 7 or more when it is a reference, and no token has
\* ended while sp_14 = 0), and the reference byte is the byte at the head
\* distance, the distance of that reference, from the end of the output,
\* 0 when the distance reaches before the start of the output.
C23_ReferenceByte ==
    [][ /\ (pc = "loop" /\ sp_14 = 0) => sp_18 < 7
        /\ (pc \in {"literal", "literal_ref"} /\ pc' = "loop") => sp_18' < 7
        /\ (pc \in {"trivial", "copy"} /\ pc' = "loop") =>
              (sp_18' >= 7 /\ UNCHANGED mru)
        /\ (pc = "loop" /\ pc' = "literal") => sp_18 < 7
        /\ (pc = "loop" /\ LoopCondition /\ PopChoices # {} /\ sp_18 >= 7
              /\ BitZero((sp_14 % 4) + sp_18 * 16)) =>
              /\ pc' = "literal_ref"
              /\ tmpvar' = Earlier(sp_20, out_pos)
      ]_vars

\* ------------------------------------------------------------ C24
\* the number of bits of the literal decoded so far: ecx is 1 followed by them
BitIndex == CHOOSE i \in 0..8 : ecx \div 2^i = 1

\* the reference byte: tmpvar1 is the byte shifted left once per bit decoded
RefByte == tmpvar \div 2^BitIndex

\* bit i of the reference byte, counted from the most significant
RefBit(i) == (RefByte \div 2^(7 - i)) % 2

\* every bit decoded so far equals the bit of the reference at its place
Matching == ecx - 2^BitIndex = RefByte \div 2^(8 - BitIndex)

\* the cell of the literal sub-coder at sp_30 a bit is decoded with: the
\* table at 0x100 (reference bit 0) or 0x200 (reference bit 1) while the
\* bits match, the table at 0 afterwards, each indexed by ecx
LiteralCell ==
    (sp_30 \div 2) + ecx
      + (IF ~Matching THEN 0 ELSE IF RefBit(BitIndex) = 0 THEN 256 ELSE 512)

\* C24: in a literal decoded with a reference byte, bit i (most significant
\* first) is decoded in the context-zero or context-one table by bit i of
\* the reference while every earlier decoded bit equalled its reference
\* bit, and in the no-context table from the first disagreement on.
C24_LiteralContext ==
    [][ (pc = "literal_ref" /\ pc' \in {"literal_ref", "loop"}) =>
          /\ BitIndex \in 0..7
          /\ RefByte \in 0..255
          /\ LiteralCell \in DOMAIN garbage'
          /\ garbage'[LiteralCell] # Cell(LiteralCell)
          /\ \A k \in DOMAIN garbage' \ {LiteralCell} :
                k \in DOMAIN garbage /\ garbage'[k] = garbage[k]
          /\ ecx' = 2 * ecx + (IF BitZero(LiteralCell) THEN 0 ELSE 1)
          /\ pc' = "loop" => decoded'[out_pos + 1] = ecx' - 256
      ]_vars

\* a literal has agreed with a 1 bit of its reference and then disagreed
C24_Witness ==
    /\ pc = "literal_ref"
    /\ ~Matching
    /\ \E i \in 0..(BitIndex - 1) : RefBit(i) = 1 /\ (ecx \div 2^(BitIndex - 1 - i)) % 2 = 1

\* ------------------------------------------------------------ C25
\* the steps an inner loop has left at most: the literal loops run while
\* ecx < 0x100, the length tree while edi < sp_30, the coarse code while
\* tmpvar2 < 0x40, the medium and raw loops while sp_30, the unwound loop
\* at 0046886D over range(4)
Remaining ==
    CASE pc \in {"literal", "literal_ref"} -> 256 - ecx
      [] pc = "lentree" -> sp_30 - edi
      [] pc = "coarse" -> 64 - tmpvar
      [] pc \in {"medium", "raw"} -> sp_30
      [] pc = "tail" -> 4 - tmpvar4
      [] OTHER -> 0

InnerLoop == pc \in {"literal", "literal_ref", "lentree", "coarse", "medium", "raw", "tail"}

\* how far into an iteration of the main loop a decode site is: control
\* only moves to later sites until the iteration ends
Site ==
    CASE pc = "loop" -> 0
      [] pc \in {"literal", "literal_ref", "kind0"} -> 1
      [] pc = "kind1" -> 2
      [] pc \in {"trivial", "kind2"} -> 3
      [] pc = "kind3" -> 4
      [] pc = "len1" -> 5
      [] pc = "len2" -> 6
      [] pc = "lentree" -> 7
      [] pc = "coarse" -> 8
      [] pc \in {"medium", "raw"} -> 9
      [] pc = "tail" -> 10
      [] pc = "push" -> 11
      [] pc = "copy" -> 12
      [] OTHER -> 13

\* C25: every iteration of the main loop returns (or raises) or increases
\* out_pos by at least 1, an iteration starts only below the announced
\* length, and every inner loop runs a bounded number of steps: each step
\* ends the function, ends an iteration with out_pos increased, moves to a
\* later decode site of the iteration, or stays in an inner loop with fewer
\* steps left.  So the function ends after at most sp_38 tokens.
C25_Terminates ==
    [][ /\ \/ pc' = "done"
           \/ pc' = "loop" /\ pc # "loop" /\ out_pos' >= out_pos + 1
           \/ out_pos' = out_pos /\ Site' > Site
           \/ out_pos' = out_pos /\ pc' = pc /\ InnerLoop /\ Remaining' < Remaining
        /\ out_pos' <= sp_38
        /\ (pc = "loop" /\ pc' # "done") => out_pos < sp_38
        /\ InnerLoop => Remaining \in 1..256
      ]_vars

\* the function has returned a whole output made of several tokens, one of
\* them a copy at a new distance
C25_Witness ==
    /\ pc = "done"
    /\ result = "decoded"
    /\ out_pos = sp_38
    /\ sp_38 >= 3
    /\ sp_20 # W(0, 1)

\* ------------------------------------------------------------ C26
\* a 32-bit value
Is32(w) == w.hi \in 0..65535 /\ w.lo \in 0..65535

\* C26: at every decode step the value ESI is below the scale EAX, and both
\* are in 0..2^32-1, from the first step on.
C26_ValueBelowScale ==
    AtDecodeSite => (Is32(EAX) /\ Is32(ESI) /\ WLt(ESI, EAX))

\* ------------------------------------------------------------ C27
\* a sub-model of the decoder: its sort and up to two selectors
Sub(m, a, b) == [m |-> m, a |-> a, b |-> b]

SubModels ==
    { Sub(m, st, 0) : m \in {"is_reference", "kind", "trivial"}, st \in 0..11 }
      \cup { Sub("coarse", lc, 0) : lc \in 0..3 }
      \cup { Sub("medium", c, 0) : c \in 4..13 }
      \cup { Sub("tail", 0, 0) }
      \cup { Sub("selector", coder, 0) : coder \in 0..1 }
      \cup { Sub(m, coder, ctx) : m \in {"low", "mid"}, coder \in 0..1, ctx \in 0..3 }
      \cup { Sub("high", coder, 0) : coder \in 0..1 }
      \cup { Sub("literal", k, 0) : k \in 0..7 }

\* the first cell of a length coder: 0x664 / 2 for a new distance (0) and
\* 0xA68 / 2 for a reused one (1)
LenBase(coder) == IF coder = 0 THEN 818 ELSE 1332

\* the cells of a sub-model, from the offsets the decode sites use (an
\* offset in bytes is twice the index of the cell)
Cells(s) ==
    CASE s.m = "is_reference" -> { s.a * 16 + ctx : ctx \in 0..3 }
      [] s.m = "kind" -> { (s.a * 2 + off) \div 2 : off \in {384, 408, 432, 456} }
      [] s.m = "trivial" -> { (s.a + 15) * 16 + ctx : ctx \in 0..3 }
      [] s.m = "coarse" ->
            (((s.a * 128 + 864) \div 2) + 1)..(((s.a * 128 + 864) \div 2) + 63)
      [] s.m = "medium" ->
            LET n == (s.a \div 2) - 1
                head == (s.a % 2) + 2
                first_cell == ((head * 2^n - s.a) * 2 + 1374) \div 2
            IN  (first_cell + 1)..(first_cell + 2^n - 1)
      [] s.m = "tail" -> ((1604 \div 2) + 1)..((1604 \div 2) + 15)
      [] s.m = "selector" -> { LenBase(s.a), LenBase(s.a) + 1 }
      [] s.m = "low" -> (LenBase(s.a) + s.b * 8 + 3)..(LenBase(s.a) + s.b * 8 + 9)
      [] s.m = "mid" -> (LenBase(s.a) + s.b * 8 + 131)..(LenBase(s.a) + s.b * 8 + 137)
      [] s.m = "high" -> (LenBase(s.a) + 259)..(LenBase(s.a) + 513)
      [] s.m = "literal" ->
            { j \in ((3692 \div 2) + s.a * 768 + 1)..((3692 \div 2) + s.a * 768 + 767) :
                (j - (3692 \div 2)) % 256 # 0 }

\* the sub-model a decode site uses, by the values that select it
Owner ==
    CASE pc = "loop" -> Sub("is_reference", sp_18, 0)
      [] pc \in {"kind0", "kind1", "kind2", "kind3"} -> Sub("kind", sp_18, 0)
      [] pc = "trivial" -> Sub("trivial", sp_18, 0)
      [] pc \in {"literal", "literal_ref"} ->
            Sub("literal",
                IF sp_14 = 0 THEN 0
                ELSE PyGet(decoded, (IF out_pos # 0 THEN out_pos ELSE sp_38) - 1) \div 32,
                0)
      [] pc \in {"len1", "len2"} -> Sub("selector", IF sp_18 >= 12 THEN 0 ELSE 1, 0)
      [] pc = "lentree" ->
            LET coder == IF sp_18 >= 12 THEN 0 ELSE 1
            IN  IF ebp = W(0, 0) THEN Sub("low", coder, sp_14 % 4)
                ELSE IF ebp = W(0, 8) THEN Sub("mid", coder, sp_14 % 4)
                ELSE Sub("high", coder, 0)
      [] pc = "coarse" -> Sub("coarse", Min(sp_24, 3), 0)
      [] pc = "medium" -> Sub("medium", CoarseCode, 0)
      [] pc = "tail" -> Sub("tail", 0, 0)
      [] OTHER -> Sub("none", 0, 0)

\* the cells of the array: garbage_length // 2 of them
InArray(j) == j \in 0..((garbage_length \div 2) - 1)

\* no cell belongs to two sub-models, and every cell is in the array
Separate ==
    \A s \in SubModels :
        /\ \A j \in Cells(s) : InArray(j)
        /\ \A t \in SubModels \ {s} : Cells(s) \cap Cells(t) = {}

\* C27: every cell read or written is inside the array and is a cell of the
\* sub-model the decode site uses; the cells of two different sub-models are
\* disjoint; the 16..271 tree of a length coder is one sub-model for its
\* four subcontexts, every other tree of the coder has one per subcontext.
C27_CellsSeparate ==
    /\ Separate
    /\ [][ /\ (AtDecodeSite /\ pc # "raw" /\ PopChoices # {}) => garbage' # garbage
           /\ garbage' # garbage =>
                 /\ Owner \in SubModels
                 /\ \E j \in DOMAIN garbage' :
                       /\ garbage'[j] # Cell(j)
                       /\ InArray(j)
                       /\ j \in Cells(Owner)
                       /\ \A k \in DOMAIN garbage' \ {j} :
                             k \in DOMAIN garbage /\ garbage'[k] = garbage[k]
         ]_vars

\* the shared 16..271 tree of the coder of reused distances is in use in
\* a subcontext other than 0
C27_Witness ==
    /\ pc = "lentree"
    /\ Owner = Sub("high", 1, 0)
    /\ sp_14 % 4 # 0
    /\ edi > 1

====
